---------------------------- MODULE Spec2Model ----------------------------
(***************************************************************************)
(* A model of the two teaching tools of TUDelft_ENVM1601:                  *)
(*                                                                         *)
(*   Central_Basin_Approach (src/ENVM1601_CentralBasinApproach.py)         *)
(*     create_CAS_model  sums the storage volumes of the named nodes of    *)
(*                       the model file into self.total_system_volume      *)
(*     run_CAS_model     the single-bucket mass balance over an inflow     *)
(*                       series                                            *)
(*   HeuristicRTC (src/ENVM1601_Heuristics.py)                             *)
(*     run_model         threshold rules evaluated once per control step   *)
(*                       of the hydraulic engine                           *)
(*                                                                         *)
(* Numbers are integers.  The curve tables of the model file below carry   *)
(* areas whose pairwise sums are even, so (a0 + a1)/2 is exact.            *)
(***************************************************************************)
EXTENDS Integers, Sequences, FiniteSets, TLC

VARIABLES
    \* ---- Central_Basin_Approach object and the call in progress
    has_volume,           \* self.total_system_volume has been assigned
    total_system_volume,  \* self.total_system_volume (0 while unassigned)
    cas_pc,               \* "idle" | "create" | "run"
    storage,              \* create_CAS_model: the specs of the argument iterated so far
    storage_len,          \* create_CAS_model: len(storage)
    stor_i,               \* create_CAS_model: index of the next spec
    volume_at_call,       \* create_CAS_model: <<has_volume, total_system_volume>> at entry
    create_result,        \* "none" | "running" | "returned" | "returned_error" | "raised"
    create_error,         \* create_CAS_model: the exception raised, or "none"
    volumes,              \* create_CAS_model: the value of volume after each pass so far
    wwtp_capacity,        \* run_CAS_model: argument
    inflow,               \* run_CAS_model: the samples of the argument iterated so far
    inflow_len,           \* run_CAS_model: len(inflow)
    time_step,            \* run_CAS_model: argument
    k,                    \* run_CAS_model: number of samples processed
    available_storage,    \* run_CAS_model: local
    total_cso_volume,     \* run_CAS_model: local
    storage_tracked,      \* run_CAS_model: local
    run_result,           \* "none" | "running" | "returned" | "raised"
    branch,               \* run_CAS_model: branch of the last sample
    pre_sample,           \* run_CAS_model: <<available_storage, total_cso_volume>> before the last sample
    previous,             \* the arguments and results of the run this run repeats, if it repeats one
    volume_at_run         \* run_CAS_model: total_system_volume when the run was called

casvars == <<has_volume, total_system_volume, cas_pc, storage, storage_len, stor_i,
             volume_at_call, create_result, create_error, volumes,
             wwtp_capacity, inflow, inflow_len, time_step,
             k, available_storage, total_cso_volume, storage_tracked,
             run_result, branch, pre_sample, previous, volume_at_run>>

VARIABLES
    \* ---- HeuristicRTC.run_model and the engine (pyswmm) it drives
    rtc_pc,               \* "idle" | "advance" | "eval" | "done"
    rule_dictionary,      \* run_model: the argument
    run_model_result,     \* "none" | "running" | "returned_frame" | "returned_error" | "raised"
    error_pump,           \* run_model: the pump named in the AttributeError, or "none"
    pump_i,               \* run_model: index in list_of_pumps of the next pump
    steps,                \* engine: control intervals integrated so far
    depth,                \* engine: nodes_model[n].depth
    total_inflow,         \* engine: nodes_model[o].total_inflow
    target_setting,       \* engine: links_model[p].target_setting
    outfall_results,      \* self.outfall_results
    times,                \* self.times
    settings_at_step      \* engine: the target settings when the current interval was integrated

rtcvars == <<rtc_pc, rule_dictionary, run_model_result, error_pump, pump_i,
             steps, depth, total_inflow, target_setting, outfall_results, times,
             settings_at_step>>

vars == <<casvars, rtcvars>>

----------------------------------------------------------------------------
(* Bounds of the model                                                     *)

MaxSpecs == 2        \* longest storage list handed to create_CAS_model
MaxSamples == 3      \* longest inflow series
MaxRules == 2        \* longest rule list of a pump
MaxSteps == 2        \* control intervals of a simulation

\* the values the arguments are drawn from
Thresholds == {0, 1, 2, 3, 4}     \* stor[1]
InflowVals == {-1, 0, 2, 5}       \* inflow_t
Rates == {-1, 0, 1}               \* wwtp_capacity
TimeSteps == {-1, 0, 1, 2}        \* time_step

SeqsUpTo(S, n) == UNION {[1..m -> S] : m \in 0..n}

----------------------------------------------------------------------------
(* Text of the model file.  A line is the sequence of its whitespace-      *)
(* separated tokens; a token is a word (a sequence of characters) or a     *)
(* number.  No storage name is made of digits only, so a name is never a   *)
(* substring of a number token.                                            *)

W(chars) == [kind |-> "word", s |-> chars, v |-> 0]
N(value) == [kind |-> "num", s |-> <<>>, v |-> value]

\* needle in hay, for sequences of characters (Python's str `in`)
IsSubstring(needle, hay) ==
    \E i \in 0..(Len(hay) - Len(needle)) :
        \A j \in 1..Len(needle) : hay[i + j] = needle[j]

\* text in line, for a text without whitespace
LineContains(line, text) ==
    \E t \in 1..Len(line) :
        /\ line[t].kind = "word"
        /\ IsSubstring(text, line[t].s)

\* characters of the words of the file
wStorageHeader == <<"[", "S", "T", "O", "R", "A", "G", "E", "]">>
wCurvesHeader == <<"[", "C", "U", "R", "V", "E", "S", "]">>
wTabular == <<"T", "A", "B", "U", "L", "A", "R">>
wFunctional == <<"F", "U", "N", "C", "T", "I", "O", "N", "A", "L">>
wStorageType == <<"S", "t", "o", "r", "a", "g", "e">>
wComment == <<";", ";">>
nS1 == <<"S", "1">>
nS10 == <<"S", "1", "0">>
nS2 == <<"S", "2">>
nZZ == <<"Z", "Z">>
nC1 == <<"C", "1">>
nC2 == <<"C", "2">>

\* fh.readlines() of the .inp file at self.model_path:
\*   ;; S1
\*   [STORAGE]
\*   S1   0 4 0 TABULAR    C1 0 0
\*   S10  0 4 0 FUNCTIONAL 4  0 0 0 0
\*   S2   0 4 0 TABULAR    C2 0 0
\*   [CURVES]
\*   C1 Storage 0 2
\*   C1         2 4
\*   C1         3 4
\*   C2 Storage 0 2
\*   C2         1 2
read_model ==
    << <<W(wComment), W(nS1)>>,
       <<W(wStorageHeader)>>,
       <<W(nS1), N(0), N(4), N(0), W(wTabular), W(nC1), N(0), N(0)>>,
       <<W(nS10), N(0), N(4), N(0), W(wFunctional), N(4), N(0), N(0), N(0), N(0)>>,
       <<W(nS2), N(0), N(4), N(0), W(wTabular), W(nC2), N(0), N(0)>>,
       <<W(wCurvesHeader)>>,
       <<W(nC1), W(wStorageType), N(0), N(2)>>,
       <<W(nC1), N(2), N(4)>>,
       <<W(nC1), N(3), N(4)>>,
       <<W(nC2), W(wStorageType), N(0), N(2)>>,
       <<W(nC2), N(1), N(2)>> >>

\* the node names a caller passes as stor[0]
Names == {nS1, nS10, nS2, nZZ}

\* outcome of a step that may raise
Ok(value) == [ok |-> TRUE, value |-> value, err |-> "none"]
Raise(err) == [ok |-> FALSE, value |-> 0, err |-> err]

\* the indices first..last in increasing order (Python's range)
RECURSIVE Range(_, _)
Range(first, last) ==
    IF first > last THEN <<>> ELSE <<first>> \o Range(first + 1, last)

\* [c for c, cl in enumerate(read_model) if '[STORAGE]' in cl]
StorageHeaders(rm) ==
    LET HasHeader(c) == LineContains(rm[c], wStorageHeader)
    IN  SelectSeq(Range(1, Len(rm)), HasHeader)

\* [k for k in range(<first header>, len(read_model)) if stor[0] in read_model[k]]
MatchingLines(rm, name) ==
    LET HasName(c) == LineContains(rm[c], name)
    IN  SelectSeq(Range(StorageHeaders(rm)[1], Len(rm)), HasName)

\* float(token)
IsNumber(token) == token.kind = "num"

\* the while loop with the last interval charged only up to the threshold
RECURSIVE IntegrateCurveClipped(_, _, _, _, _)
IntegrateCurveClipped(curve, threshold, sp, count, volume) ==
    IF ~(sp < threshold) THEN Ok(volume)
    ELSE IF count + 2 > Len(curve) THEN Raise("IndexError")
    ELSE LET lo == curve[count + 1]
             hi == curve[count + 2]
         IN  IF \/ Len(lo) < 2 \/ Len(hi) < 2 THEN Raise("IndexError")
             ELSE LET a0 == lo[Len(lo)]
                      a1 == hi[Len(hi)]
                      d0 == lo[Len(lo) - 1]
                      d1 == hi[Len(hi) - 1]
                  IN  IF ~(IsNumber(a0) /\ IsNumber(a1) /\ IsNumber(d0) /\ IsNumber(d1))
                      THEN Raise("ValueError")
                      ELSE LET width == IF d1.v - d0.v < threshold - sp
                                        THEN d1.v - d0.v ELSE threshold - sp
                           IN  IntegrateCurveClipped(curve, threshold,
                                          sp + (d1.v - d0.v),
                                          count + 1,
                                          volume + ((a0.v + a1.v) \div 2) * width)

\* the while loop entered also when sp equals the threshold
RECURSIVE IntegrateCurveInclusive(_, _, _, _, _)
IntegrateCurveInclusive(curve, threshold, sp, count, volume) ==
    IF ~(sp <= threshold) THEN Ok(volume)
    ELSE IF count + 2 > Len(curve) THEN Raise("IndexError")
    ELSE LET lo == curve[count + 1]
             hi == curve[count + 2]
         IN  IF \/ Len(lo) < 2 \/ Len(hi) < 2 THEN Raise("IndexError")
             ELSE LET a0 == lo[Len(lo)]
                      a1 == hi[Len(hi)]
                      d0 == lo[Len(lo) - 1]
                      d1 == hi[Len(hi) - 1]
                  IN  IF ~(IsNumber(a0) /\ IsNumber(a1) /\ IsNumber(d0) /\ IsNumber(d1))
                      THEN Raise("ValueError")
                      ELSE IntegrateCurveInclusive(curve, threshold,
                                          sp + (d1.v - d0.v),
                                          count + 1,
                                          volume + ((a0.v + a1.v) \div 2) * (d1.v - d0.v))

\* the while loop ending quietly where the curve ends
RECURSIVE IntegrateCurveStopsAtEnd(_, _, _, _, _)
IntegrateCurveStopsAtEnd(curve, threshold, sp, count, volume) ==
    IF ~(sp < threshold) THEN Ok(volume)
    ELSE IF count + 2 > Len(curve) THEN Ok(volume)
    ELSE LET lo == curve[count + 1]
             hi == curve[count + 2]
         IN  IF \/ Len(lo) < 2 \/ Len(hi) < 2 THEN Raise("IndexError")
             ELSE LET a0 == lo[Len(lo)]
                      a1 == hi[Len(hi)]
                      d0 == lo[Len(lo) - 1]
                      d1 == hi[Len(hi) - 1]
                  IN  IF ~(IsNumber(a0) /\ IsNumber(a1) /\ IsNumber(d0) /\ IsNumber(d1))
                      THEN Raise("ValueError")
                      ELSE IntegrateCurveStopsAtEnd(curve, threshold,
                                          sp + (d1.v - d0.v),
                                          count + 1,
                                          volume + ((a0.v + a1.v) \div 2) * (d1.v - d0.v))

\* the while loop of the tabular branch: state (sp, count, volume), count
\* is the 0-based index of Python, all_curve[count] is curve[count + 1]
RECURSIVE IntegrateCurve(_, _, _, _, _)
IntegrateCurve(curve, threshold, sp, count, volume) ==
    IF ~(sp < threshold) THEN Ok(volume)
    ELSE IF count + 2 > Len(curve) THEN Raise("IndexError")
    ELSE LET lo == curve[count + 1]
             hi == curve[count + 2]
         IN  IF \/ Len(lo) < 2 \/ Len(hi) < 2 THEN Raise("IndexError")
             ELSE LET a0 == lo[Len(lo)]
                      a1 == hi[Len(hi)]
                      d0 == lo[Len(lo) - 1]
                      d1 == hi[Len(hi) - 1]
                  IN  IF ~(IsNumber(a0) /\ IsNumber(a1) /\ IsNumber(d0) /\ IsNumber(d1))
                      THEN Raise("ValueError")
                      ELSE IntegrateCurve(curve, threshold,
                                          sp + (d1.v - d0.v),
                                          count + 1,
                                          volume + ((a0.v + a1.v) \div 2) * (d1.v - d0.v))

\* all_curve: the lines that contain the curve name and start with it
AllCurve(rm, relevant_curve) ==
    LET Mentions(line) == LineContains(line, relevant_curve)
        StartsWith(line) == line[1].kind = "word" /\ line[1].s = relevant_curve
    IN  SelectSeq(SelectSeq(rm, Mentions), StartsWith)

\* one pass of the body of `for stor in storage`, up to the value of volume
SpecVolume(rm, stor) ==
    IF StorageHeaders(rm) = <<>> THEN Raise("IndexError")
    ELSE IF MatchingLines(rm, stor[1]) = <<>> THEN Raise("IndexError")
    ELSE LET line == rm[MatchingLines(rm, stor[1])[1]]
         IN  IF LineContains(line, wTabular)
             THEN IF Len(line) < 6 THEN Raise("IndexError")
                  ELSE IF line[6].kind # "word" THEN Raise("IndexError")
                  ELSE IntegrateCurve(AllCurve(rm, line[6].s), stor[2], 0, 0, 0)
             ELSE IF Len(line) < 6 THEN Raise("IndexError")
                  ELSE IF ~IsNumber(line[6]) THEN Raise("ValueError")
                  ELSE Ok(stor[2] * line[6].v)

----------------------------------------------------------------------------
(* Central_Basin_Approach                                                  *)

Min(a, b) == IF a < b THEN a ELSE b

NoSample == [available_storage |-> 0, total_cso_volume |-> 0]

\* no earlier run is being repeated
NoPrevious ==
    [some |-> FALSE, wwtp_capacity |-> 0, inflow |-> <<>>, time_step |-> 0,
     total_cso_volume |-> 0, storage_tracked |-> <<>>]

\* the (name, threshold) pairs a caller lists in storage
StorageSpecs == Names \X Thresholds

\* the state after __init__: no total_system_volume attribute yet, no call made
CASInit ==
    /\ has_volume = FALSE
    /\ total_system_volume = 0
    /\ cas_pc = "idle"
    /\ storage = <<>>
    /\ storage_len = 0
    /\ stor_i = 0
    /\ volume_at_call = <<FALSE, 0>>
    /\ create_result = "none"
    /\ create_error = "none"
    /\ volumes = <<>>
    /\ wwtp_capacity = 0
    /\ inflow = <<>>
    /\ inflow_len = 0
    /\ time_step = 0
    /\ k = 0
    /\ available_storage = 0
    /\ total_cso_volume = 0
    /\ storage_tracked = <<>>
    /\ run_result = "none"
    /\ branch = "none"
    /\ pre_sample = NoSample
    /\ previous = NoPrevious
    /\ volume_at_run = 0

\* the locals of an earlier run_CAS_model are gone when create_CAS_model is called
ForgetRun ==
    /\ wwtp_capacity' = 0
    /\ inflow' = <<>>
    /\ inflow_len' = 0
    /\ time_step' = 0
    /\ k' = 0
    /\ available_storage' = 0
    /\ total_cso_volume' = 0
    /\ storage_tracked' = <<>>
    /\ run_result' = "none"
    /\ branch' = "none"
    /\ pre_sample' = NoSample
    /\ previous' = NoPrevious
    /\ volume_at_run' = 0

\* the locals of an earlier create_CAS_model are gone when run_CAS_model is called
ForgetCreate ==
    /\ storage' = <<>>
    /\ storage_len' = 0
    /\ stor_i' = 0
    /\ volume_at_call' = <<FALSE, 0>>
    /\ create_result' = "none"
    /\ create_error' = "none"
    /\ volumes' = <<>>

\* create_CAS_model(storage), storage not a list, or storage[0] neither a
\* list nor a tuple: the AttributeError object is returned, not raised
CreateBadShape ==
    /\ cas_pc = "idle"
    /\ storage' = <<>>
    /\ storage_len' = 0
    /\ stor_i' = 0
    /\ volume_at_call' = <<has_volume, total_system_volume>>
    /\ create_result' = "returned_error"
    /\ create_error' = "none"
    /\ volumes' = <<>>
    /\ ForgetRun
    /\ UNCHANGED <<has_volume, total_system_volume, cas_pc>>
    /\ UNCHANGED rtcvars

\* create_CAS_model([]): storage[0] raises IndexError
CreateEmpty ==
    /\ cas_pc = "idle"
    /\ storage' = <<>>
    /\ storage_len' = 0
    /\ stor_i' = 0
    /\ volume_at_call' = <<has_volume, total_system_volume>>
    /\ create_result' = "raised"
    /\ create_error' = "IndexError"
    /\ volumes' = <<>>
    /\ ForgetRun
    /\ UNCHANGED <<has_volume, total_system_volume, cas_pc>>
    /\ UNCHANGED rtcvars

\* create_CAS_model(storage) with a list of n pairs, up to the loop: the
\* file is read and self.total_system_volume = 0.  The pairs are drawn as
\* the loop reaches them.
CreateBegin ==
    \E n \in 1..MaxSpecs :
        /\ cas_pc = "idle"
        /\ storage' = <<>>
        /\ storage_len' = n
        /\ stor_i' = 1
        /\ volume_at_call' = <<has_volume, total_system_volume>>
        /\ create_result' = "running"
        /\ create_error' = "none"
        /\ volumes' = <<>>
        /\ has_volume' = TRUE
        /\ total_system_volume' = 0
        /\ cas_pc' = "create"
        /\ ForgetRun
        /\ UNCHANGED rtcvars

\* one pass of `for stor in storage`; an exception leaves the method
CreateSpec ==
    \E stor \in StorageSpecs :
        /\ cas_pc = "create"
        /\ stor_i <= storage_len
        /\ storage' = Append(storage, stor)
        /\ LET r == SpecVolume(read_model, stor)
           IN  IF r.ok
               THEN /\ volumes' = Append(volumes, r.value)
                    /\ total_system_volume' = total_system_volume + r.value
                    /\ stor_i' = stor_i + 1
                    /\ UNCHANGED <<cas_pc, create_result, create_error>>
               ELSE /\ create_result' = "raised"
                    /\ create_error' = r.err
                    /\ cas_pc' = "idle"
                    /\ UNCHANGED <<total_system_volume, stor_i, volumes>>
        /\ UNCHANGED <<has_volume, storage_len, volume_at_call, wwtp_capacity,
                       inflow, inflow_len, time_step, k, available_storage, total_cso_volume,
                       storage_tracked, run_result, branch, pre_sample, previous, volume_at_run>>
        /\ UNCHANGED rtcvars

\* return self.total_system_volume
CreateReturn ==
    /\ cas_pc = "create"
    /\ stor_i > storage_len
    /\ create_result' = "returned"
    /\ cas_pc' = "idle"
    /\ UNCHANGED <<has_volume, total_system_volume, storage, storage_len, stor_i,
                   volume_at_call, create_error, volumes,
                   wwtp_capacity, inflow, inflow_len, time_step, k,
                   available_storage, total_cso_volume, storage_tracked,
                   run_result, branch, pre_sample, previous, volume_at_run>>
    /\ UNCHANGED rtcvars

\* the condition of the if of the loop body
Overflows(inflow_t, ts, wwtp, available) ==
    inflow_t * ts > wwtp * ts + available

\* OverflowBranch with the operands of the shortfall exchanged
OverflowBranchExchanged(inflow_t, ts, wwtp, available, cso) ==
    [available_storage |-> 0,
     total_cso_volume |-> cso + (wwtp * ts - inflow_t * ts)]

\* OverflowBranch with the sum computed before available_storage is set to 0
OverflowBranchPriorStorage(inflow_t, ts, wwtp, available, cso) ==
    [available_storage |-> 0,
     total_cso_volume |-> cso + (inflow_t * ts - wwtp * ts - available)]

\* the overflow branch: available_storage is set to 0 first, and the sum
\* then reads it
OverflowBranch(inflow_t, ts, wwtp, available, cso) ==
    LET zeroed == 0
    IN  [available_storage |-> zeroed,
         total_cso_volume |-> cso + (inflow_t * ts - wwtp * ts - zeroed)]

\* StoreBranch without the cap at total_system_volume
StoreBranchNoCap(inflow_t, ts, wwtp, available, cso, capacity) ==
    [available_storage |-> available + wwtp * ts - inflow_t * ts,
     total_cso_volume |-> cso]

\* StoreBranch that counts the surplus above total_system_volume as overflow
StoreBranchSpill(inflow_t, ts, wwtp, available, cso, capacity) ==
    LET level == available + wwtp * ts - inflow_t * ts
    IN  [available_storage |-> Min(level, capacity),
         total_cso_volume |-> IF level > capacity THEN cso + (level - capacity) ELSE cso]

\* the else branch
StoreBranch(inflow_t, ts, wwtp, available, cso, capacity) ==
    [available_storage |-> Min(available + wwtp * ts - inflow_t * ts, capacity),
     total_cso_volume |-> cso]

\* RecordStorage that records only while storage is left
RecordStorageNonZero(tracked, available) ==
    IF available = 0 THEN tracked ELSE Append(tracked, available)

\* storage_tracked.append(available_storage)
RecordStorage(tracked, available) == Append(tracked, available)

\* RunRaises with the arguments validated as well
RunRaisesValidating(assigned, w, ts, n) ==
    ~assigned \/ n = 0 \/ ts <= 0 \/ w <= 0

\* available_storage = copy.copy(self.total_system_volume): the value a run
\* starts from, given the capacity and what the run before left
InitialStorageCarried(capacity, left_over) == left_over

InitialStorage(capacity, left_over) == capacity

\* run_CAS_model raises before its loop: nothing but the read of
\* self.total_system_volume can fail, the arguments are not looked at
RunRaises(assigned, w, ts, n) == ~assigned

\* run_CAS_model(w, inflow, ts) with n samples, up to the loop;
\* copy.copy(self.total_system_volume) raises AttributeError when
\* create_CAS_model never assigned it.  The samples are drawn as the loop
\* reaches them.
RunCall ==
    \E w \in Rates, ts \in TimeSteps, n \in 0..MaxSamples :
        /\ cas_pc = "idle"
        /\ wwtp_capacity' = w
        /\ time_step' = ts
        /\ inflow' = <<>>
        /\ inflow_len' = n
        /\ k' = 0
        /\ total_cso_volume' = 0
        /\ storage_tracked' = <<>>
        /\ branch' = "none"
        /\ pre_sample' = NoSample
        /\ previous' = NoPrevious
        /\ volume_at_run' = total_system_volume
        /\ IF ~RunRaises(has_volume, w, ts, n)
           THEN /\ available_storage' = InitialStorage(total_system_volume, available_storage)
                /\ run_result' = "running"
                /\ cas_pc' = "run"
           ELSE /\ available_storage' = 0
                /\ run_result' = "raised"
                /\ cas_pc' = "idle"
        /\ ForgetCreate
        /\ UNCHANGED <<has_volume, total_system_volume>>
        /\ UNCHANGED rtcvars

\* run_CAS_model called again, straight after it returned, with the
\* arguments of the run that returned
RunAgain ==
    /\ cas_pc = "idle"
    /\ run_result = "returned"
    /\ previous' = [some |-> TRUE, wwtp_capacity |-> wwtp_capacity, inflow |-> inflow,
                    time_step |-> time_step, total_cso_volume |-> total_cso_volume,
                    storage_tracked |-> storage_tracked]
    /\ inflow' = <<>>
    /\ k' = 0
    /\ total_cso_volume' = 0
    /\ storage_tracked' = <<>>
    /\ branch' = "none"
    /\ pre_sample' = NoSample
    /\ volume_at_run' = total_system_volume
    /\ IF ~RunRaises(has_volume, wwtp_capacity, time_step, inflow_len)
       THEN /\ available_storage' = InitialStorage(total_system_volume, available_storage)
            /\ run_result' = "running"
            /\ cas_pc' = "run"
       ELSE /\ available_storage' = 0
            /\ run_result' = "raised"
            /\ cas_pc' = "idle"
    /\ ForgetCreate
    /\ UNCHANGED <<has_volume, total_system_volume, wwtp_capacity, time_step, inflow_len>>
    /\ UNCHANGED rtcvars

\* the samples the loop can meet next: those of the caller's series
NextSamples ==
    IF ~previous.some THEN InflowVals
    ELSE IF k < Len(previous.inflow) THEN {previous.inflow[k + 1]}
    ELSE {}

\* one pass of `for inflow_t in inflow`
RunSample ==
  \E inflow_t \in NextSamples :
    /\ cas_pc = "run"
    /\ k < inflow_len
    /\ inflow' = Append(inflow, inflow_t)
    /\ LET over == Overflows(inflow_t, time_step, wwtp_capacity, available_storage)
           next == IF over
                   THEN OverflowBranch(inflow_t, time_step, wwtp_capacity,
                                       available_storage, total_cso_volume)
                   ELSE StoreBranch(inflow_t, time_step, wwtp_capacity,
                                    available_storage, total_cso_volume,
                                    total_system_volume)
       IN  /\ available_storage' = next.available_storage
           /\ total_cso_volume' = next.total_cso_volume
           /\ storage_tracked' = RecordStorage(storage_tracked, next.available_storage)
           /\ branch' = IF over THEN "overflow" ELSE "store"
    /\ pre_sample' = [available_storage |-> available_storage,
                      total_cso_volume |-> total_cso_volume]
    /\ k' = k + 1
    /\ UNCHANGED <<has_volume, total_system_volume, cas_pc, storage, storage_len,
                   stor_i, volume_at_call, create_result, create_error, volumes,
                   wwtp_capacity, inflow_len, time_step, run_result, previous, volume_at_run>>
    /\ UNCHANGED rtcvars

\* return total_cso_volume, storage_tracked
RunReturn ==
    /\ cas_pc = "run"
    /\ k = inflow_len
    /\ run_result' = "returned"
    /\ cas_pc' = "idle"
    /\ UNCHANGED <<has_volume, total_system_volume, storage, storage_len, stor_i,
                   volume_at_call, create_result, create_error, volumes,
                   wwtp_capacity, inflow,
                   inflow_len, time_step, k, available_storage, total_cso_volume,
                   storage_tracked, branch, pre_sample, previous, volume_at_run>>
    /\ UNCHANGED rtcvars

CASNext ==
    \/ CreateBadShape
    \/ CreateEmpty
    \/ CreateBegin
    \/ CreateSpec
    \/ CreateReturn
    \/ RunCall
    \/ RunAgain
    \/ RunSample
    \/ RunReturn

----------------------------------------------------------------------------
(* HeuristicRTC.run_model                                                  *)
(*                                                                         *)
(* Depths and thresholds are in tenths of a metre, settings in halves of   *)
(* the full pump capacity (2 is ON, 0 is OFF), times in seconds.           *)

\* what the engine enumerates for the model file
list_of_pumps == <<"p10_1", "p_2_1">>
list_of_outfalls == <<"cso_1", "out_1">>
NodeIds == {"j_10", "j_2", "cso_1", "out_1"}

Pumps == {list_of_pumps[i] : i \in 1..Len(list_of_pumps)}
Outfalls == {list_of_outfalls[i] : i \in 1..Len(list_of_outfalls)}

\* the depths and flows the engine may hold after an interval, and the
\* settings the pumps may start with
DepthMaps ==
    {[n \in NodeIds |-> IF n = "j_10" THEN a ELSE IF n = "j_2" THEN b ELSE 0] :
        a \in {0, 1, 2, 3}, b \in {0, 2}}
FlowMaps == {[o \in Outfalls |-> IF o = "cso_1" THEN q ELSE 3] : q \in {0, 1}}
SettingMaps == {[p \in Pumps |-> v] : v \in {0, 2}}

\* the rules a caller may list for pump p10_1: [node, level, set point, direction]
Rules ==
    { <<"j_10", 2, 2, "Higher">>,
      <<"j_10", 1, 0, "lower">>,
      <<"j_10", 0, 1, "higher">>,
      <<"j_10", 2, 0, "lower">>,
      <<"j_10", 1, 1, "equal">>,
      <<"j_99", 1, 2, "higher">> }

\* the keys a caller may give rule_dictionary, and the lists under them
Actuators == {"p10_1", "p_2_1", "WWTP_inlet"}
ListsFor(a, l1) ==
    IF a = "p10_1" THEN l1
    ELSE IF a = "p_2_1" THEN << <<"j_2", 1, 2, "higher">>, <<"j_2", 1, 0, "lower">> >>
    ELSE << <<"j_10", 3, 2, "higher">>, <<"j_10", 1, 0, "lower">> >>
RuleDictionaries ==
    {[a \in keys |-> ListsFor(a, l1)] :
        keys \in (SUBSET Actuators) \ {{}}, l1 \in SeqsUpTo(Rules, MaxRules)}

\* d.lower()
Lower(d) ==
    CASE d = "Higher" -> "higher"
      [] d = "HIGHER" -> "higher"
      [] d = "Lower" -> "lower"
      [] d = "LOWER" -> "lower"
      [] OTHER -> d

\* [d.lower() for d in rule if isinstance(d, str)]: the node name and the
\* direction are the strings of a rule
LoweredStrings(rule) == {Lower(rule[1]), Lower(rule[4])}

\* the state before run_model is called
RTCInit ==
    /\ rtc_pc = "idle"
    /\ rule_dictionary = <<>>
    /\ run_model_result = "none"
    /\ error_pump = "none"
    /\ pump_i = 0
    /\ steps = 0
    /\ depth = [n \in NodeIds |-> 0]
    /\ total_inflow = [o \in Outfalls |-> 0]
    /\ target_setting = [p \in Pumps |-> 0]
    /\ outfall_results = [i \in 1..Len(list_of_outfalls) |-> <<>>]
    /\ times = <<>>
    /\ settings_at_step = [p \in Pumps |-> 0]

\* ApplyRules that stops at the first rule that applies
RECURSIVE ApplyRulesFirstMatch(_, _, _, _)
ApplyRulesFirstMatch(rules, i, depths, setting) ==
    IF i > Len(rules) THEN Ok(setting)
    ELSE LET rule == rules[i]
         IN  IF "higher" \in LoweredStrings(rule)
             THEN IF rule[1] \notin DOMAIN depths THEN Raise(setting)
                  ELSE IF depths[rule[1]] > rule[2] THEN Ok(rule[3])
                  ELSE ApplyRulesFirstMatch(rules, i + 1, depths, setting)
             ELSE IF "lower" \in LoweredStrings(rule)
             THEN IF rule[1] \notin DOMAIN depths THEN Raise(setting)
                  ELSE IF depths[rule[1]] <= rule[2] THEN Ok(rule[3])
                  ELSE ApplyRulesFirstMatch(rules, i + 1, depths, setting)
             ELSE ApplyRulesFirstMatch(rules, i + 1, depths, setting)

\* ApplyRules that switches the pump off before it looks at the rules
RECURSIVE ApplyRulesFromOff(_, _, _, _)
ApplyRulesFromOff(rules, i, depths, setting) ==
    IF i > Len(rules) THEN Ok(IF i = 1 THEN 0 ELSE setting)
    ELSE LET rule == rules[i]
             start == IF i = 1 THEN 0 ELSE setting
         IN  IF "higher" \in LoweredStrings(rule)
             THEN IF rule[1] \notin DOMAIN depths THEN Raise(start)
                  ELSE IF depths[rule[1]] > rule[2]
                       THEN ApplyRulesFromOff(rules, i + 1, depths, rule[3])
                       ELSE ApplyRulesFromOff(rules, i + 1, depths, start)
             ELSE IF "lower" \in LoweredStrings(rule)
             THEN IF rule[1] \notin DOMAIN depths THEN Raise(start)
                  ELSE IF depths[rule[1]] <= rule[2]
                       THEN ApplyRulesFromOff(rules, i + 1, depths, rule[3])
                       ELSE ApplyRulesFromOff(rules, i + 1, depths, start)
             ELSE ApplyRulesFromOff(rules, i + 1, depths, start)

\* `for rule in rule_dictionary[pump]` from rule i on: the target setting
\* of the pump when the loop ends, or when nodes_model[rule[0]] raises
\* (value is then the setting written so far)
RECURSIVE ApplyRules(_, _, _, _)
ApplyRules(rules, i, depths, setting) ==
    IF i > Len(rules) THEN Ok(setting)
    ELSE LET rule == rules[i]
         IN  IF "higher" \in LoweredStrings(rule)
             THEN IF rule[1] \notin DOMAIN depths
                  THEN [ok |-> FALSE, value |-> setting, err |-> "PYSWMMException"]
                  ELSE IF depths[rule[1]] > rule[2]
                       THEN ApplyRules(rules, i + 1, depths, rule[3])
                       ELSE ApplyRules(rules, i + 1, depths, setting)
             ELSE IF "lower" \in LoweredStrings(rule)
             THEN IF rule[1] \notin DOMAIN depths
                  THEN [ok |-> FALSE, value |-> setting, err |-> "PYSWMMException"]
                  ELSE IF depths[rule[1]] <= rule[2]
                       THEN ApplyRules(rules, i + 1, depths, rule[3])
                       ELSE ApplyRules(rules, i + 1, depths, setting)
             ELSE ApplyRules(rules, i + 1, depths, setting)

\* the body of the try for one pump: rule_dictionary[pump] raises KeyError
\* when the pump has no entry
TryPump(rules_of, pump, depths, setting) ==
    IF pump \notin DOMAIN rules_of
    THEN [ok |-> FALSE, value |-> setting, err |-> "KeyError"]
    ELSE ApplyRules(rules_of[pump], 1, depths, setting)

\* run_model(rd) with an argument that fails the two asserts
RunModelBadArgument ==
    /\ rtc_pc = "idle"
    /\ run_model_result' = "raised"
    /\ rtc_pc' = "done"
    /\ UNCHANGED <<rule_dictionary, error_pump, pump_i, steps, depth,
                   total_inflow, target_setting, outfall_results, times>>
    /\ UNCHANGED settings_at_step
    /\ UNCHANGED casvars

\* run_model({}): list(rule_dictionary.values())[0] raises IndexError
RunModelEmptyDictionary ==
    /\ rtc_pc = "idle"
    /\ rule_dictionary' = <<>>
    /\ run_model_result' = "raised"
    /\ rtc_pc' = "done"
    /\ UNCHANGED <<error_pump, pump_i, steps, depth, total_inflow,
                   target_setting, outfall_results, times>>
    /\ UNCHANGED settings_at_step
    /\ UNCHANGED casvars

\* run_model(rd) up to the loop over the simulation: the engine is opened
\* and the result lists are initialised
RunModelStart ==
    \E rd \in RuleDictionaries, initial \in SettingMaps :
        /\ rtc_pc = "idle"
        /\ rule_dictionary' = rd
        /\ run_model_result' = "running"
        /\ target_setting' = initial
        /\ outfall_results' = [i \in 1..Len(list_of_outfalls) |-> <<>>]
        /\ times' = <<>>
        /\ rtc_pc' = "advance"
        /\ settings_at_step' = initial
        /\ UNCHANGED <<error_pump, pump_i, steps, depth, total_inflow>>
        /\ UNCHANGED casvars

\* `for step in sim`: the engine integrates one control interval (900 s)
\* with the target settings it holds and yields
EngineAdvance ==
    \E d \in DepthMaps, f \in FlowMaps :
        /\ rtc_pc = "advance"
        /\ steps < MaxSteps
        /\ depth' = d
        /\ total_inflow' = f
        /\ steps' = steps + 1
        /\ pump_i' = 1
        /\ rtc_pc' = "eval"
        /\ settings_at_step' = target_setting
        /\ UNCHANGED <<rule_dictionary, run_model_result, error_pump,
                       target_setting, outfall_results, times>>
        /\ UNCHANGED casvars

\* one pass of `for pump in self.list_of_pumps`: the try, and the except
\* that returns the AttributeError object
EvalPump ==
    /\ rtc_pc = "eval"
    /\ pump_i <= Len(list_of_pumps)
    /\ LET pump == list_of_pumps[pump_i]
           r == TryPump(rule_dictionary, pump, depth, target_setting[pump])
       IN  /\ target_setting' = [target_setting EXCEPT ![pump] = r.value]
           /\ IF r.ok
              THEN /\ pump_i' = pump_i + 1
                   /\ UNCHANGED <<run_model_result, error_pump, rtc_pc>>
              ELSE /\ run_model_result' = "returned_error"
                   /\ error_pump' = pump
                   /\ rtc_pc' = "done"
                   /\ UNCHANGED pump_i
    /\ UNCHANGED <<rule_dictionary, steps, depth, total_inflow,
                   outfall_results, times>>
    /\ UNCHANGED settings_at_step
    /\ UNCHANGED casvars

\* RecordStep that appends only the inflows that are not zero
RecordStepNonZero ==
    /\ rtc_pc = "eval"
    /\ pump_i > Len(list_of_pumps)
    /\ outfall_results' =
           [i \in 1..Len(list_of_outfalls) |->
               IF total_inflow[list_of_outfalls[i]] = 0
               THEN outfall_results[i]
               ELSE Append(outfall_results[i], total_inflow[list_of_outfalls[i]])]
    /\ times' = Append(times, 900 * steps)
    /\ rtc_pc' = "advance"
    /\ UNCHANGED <<rule_dictionary, run_model_result, error_pump, pump_i,
                   steps, depth, total_inflow, target_setting>>
    /\ UNCHANGED settings_at_step
    /\ UNCHANGED casvars

\* RecordStep placed ahead of the loop over the pumps
RecordStepBeforeEvaluation ==
    /\ rtc_pc = "eval"
    /\ pump_i >= 1
    /\ outfall_results' =
           [i \in 1..Len(list_of_outfalls) |->
               Append(outfall_results[i], total_inflow[list_of_outfalls[i]])]
    /\ times' = Append(times, 900 * steps)
    /\ rtc_pc' = "advance"
    /\ UNCHANGED <<rule_dictionary, run_model_result, error_pump, pump_i,
                   steps, depth, total_inflow, target_setting>>
    /\ UNCHANGED settings_at_step
    /\ UNCHANGED casvars

\* the rest of the body of `for step in sim`: one inflow per outfall and
\* sim.current_time are appended
RecordStep ==
    /\ rtc_pc = "eval"
    /\ pump_i > Len(list_of_pumps)
    /\ outfall_results' =
           [i \in 1..Len(list_of_outfalls) |->
               Append(outfall_results[i], total_inflow[list_of_outfalls[i]])]
    /\ times' = Append(times, 900 * steps)
    /\ rtc_pc' = "advance"
    /\ UNCHANGED <<rule_dictionary, run_model_result, error_pump, pump_i,
                   steps, depth, total_inflow, target_setting>>
    /\ UNCHANGED settings_at_step
    /\ UNCHANGED casvars

\* the simulation ends: the statistics are printed and the DataFrame of
\* outfall_results is returned
RunModelReturn ==
    /\ rtc_pc = "advance"
    /\ steps >= 1
    /\ run_model_result' = "returned_frame"
    /\ rtc_pc' = "done"
    /\ UNCHANGED <<rule_dictionary, error_pump, pump_i, steps, depth,
                   total_inflow, target_setting, outfall_results, times>>
    /\ UNCHANGED settings_at_step
    /\ UNCHANGED casvars

RTCNext ==
    \/ RunModelBadArgument
    \/ RunModelEmptyDictionary
    \/ RunModelStart
    \/ EngineAdvance
    \/ EvalPump
    \/ RecordStep
    \/ RunModelReturn

----------------------------------------------------------------------------
(* The two objects are used apart                                          *)

Init == CASInit /\ RTCInit

SpecCAS == Init /\ [][CASNext]_vars

SpecRTC == Init /\ [][RTCNext]_vars

----------------------------------------------------------------------------
(* Claims about run_CAS_model and create_CAS_model, under SpecCAS          *)

\* a run of run_CAS_model has got past the read of total_system_volume
InRun == run_result \in {"running", "returned"}

\* the valid inputs of run_CAS_model: capacity >= 0, time_step > 0,
\* wwtp_capacity >= 0, no negative inflow sample
ValidRun ==
    /\ InRun
    /\ total_system_volume >= 0
    /\ time_step > 0
    /\ wwtp_capacity >= 0
    /\ \A i \in 1..Len(inflow) : inflow[i] >= 0

\* the last sample processed took the overflow branch, judged on the
\* values before the sample
LastOverflowed ==
    /\ InRun
    /\ k >= 1
    /\ inflow[k] * time_step > wwtp_capacity * time_step + pre_sample.available_storage

\* the last sample processed took the else branch
LastStored ==
    /\ InRun
    /\ k >= 1
    /\ ~(inflow[k] * time_step > wwtp_capacity * time_step + pre_sample.available_storage)

\* C1: a sample that takes the overflow branch adds
\* inflow*time_step - wwtp_capacity*time_step - a to the cumulative overflow,
\* a being available_storage before the sample set it to 0 (stated for
\* runs with valid inputs).
C1_OverflowSubtractsPriorStorage ==
    (ValidRun /\ LastOverflowed) =>
        total_cso_volume - pre_sample.total_cso_volume =
            inflow[k] * time_step - wwtp_capacity * time_step
                - pre_sample.available_storage

\* C2: with valid inputs every element of the storage trajectory, and
\* available_storage after every sample, lies in [0, total_system_volume].
C2_StorageWithinCapacity ==
    ValidRun =>
        /\ available_storage >= 0
        /\ available_storage <= total_system_volume
        /\ \A i \in 1..Len(storage_tracked) :
               /\ storage_tracked[i] >= 0
               /\ storage_tracked[i] <= total_system_volume

\* C2 witness: a valid run that overflowed, was capped at the capacity and
\* recorded a value strictly inside the range
C2_Witness ==
    /\ ValidRun
    /\ total_cso_volume > 0
    /\ \E i \in 1..Len(storage_tracked) :
           storage_tracked[i] > 0 /\ storage_tracked[i] < total_system_volume
    /\ \E i \in 1..Len(storage_tracked) : storage_tracked[i] = 0

\* C6: with valid inputs total_cso_volume starts at 0 and never decreases
\* from one inflow sample to the next.
C6_OverflowNeverDecreases ==
    /\ [](ValidRun /\ k = 0 => total_cso_volume = 0)
    /\ [][(k' = k + 1 /\ ValidRun') => total_cso_volume' >= total_cso_volume]_vars

\* C6 witness: a valid run whose overflow grew in two samples
C6_Witness ==
    /\ ValidRun
    /\ k >= 2
    /\ LastOverflowed
    /\ pre_sample.total_cso_volume > 0

\* C7: a sample that does not take the overflow branch sets
\* available_storage to min(available_storage + wwtp_capacity*time_step -
\* inflow*time_step, total_system_volume) and leaves total_cso_volume alone.
C7_StoreBranchUpdate ==
    LastStored =>
        /\ available_storage =
               Min(pre_sample.available_storage + wwtp_capacity * time_step
                       - inflow[k] * time_step,
                   total_system_volume)
        /\ total_cso_volume = pre_sample.total_cso_volume

\* C7 witness: a stored sample after an overflow, where the cap applies
C7_Witness ==
    /\ LastStored
    /\ pre_sample.total_cso_volume > 0
    /\ pre_sample.available_storage + wwtp_capacity * time_step
           - inflow[k] * time_step > total_system_volume

\* C8: every sample appends exactly one value, the available_storage after
\* the sample, in both branches: after k samples the trajectory has length
\* k, and on return its length is len(inflow).
C8_OneEntryPerSample ==
    /\ InRun => /\ Len(storage_tracked) = k
                /\ Len(inflow) = k
                /\ k >= 1 => storage_tracked[k] = available_storage
    /\ run_result = "returned" => Len(storage_tracked) = inflow_len

\* C8 witness: a returned run of the longest series that took both branches
C8_Witness ==
    /\ run_result = "returned"
    /\ inflow_len = MaxSamples
    /\ \E i \in 1..Len(storage_tracked) : storage_tracked[i] = 0
    /\ \E i \in 1..Len(storage_tracked) : storage_tracked[i] > 0
    /\ total_cso_volume > 0

\* C9: run_CAS_model fails when the inflow is empty, when time_step <= 0 or
\* when wwtp_capacity <= 0, and in no other case (stated for an object
\* whose total_system_volume has been assigned).
C9_FailsOnMalformedInputOnly ==
    (has_volume /\ run_result \in {"returned", "raised"}) =>
        (run_result = "raised" <=>
            (inflow_len = 0 \/ time_step <= 0 \/ wwtp_capacity <= 0))

\* C9 as amended: run_CAS_model looks at none of its arguments before the
\* loop.  It fails exactly when total_system_volume was never assigned; an
\* empty inflow returns overflow 0 and an empty trajectory, and
\* time_step <= 0 or wwtp_capacity <= 0 return a result as well.
C9_FailsOnlyWithoutVolume ==
    /\ run_result = "raised" => ~has_volume
    /\ InRun => has_volume
    /\ (cas_pc = "idle" /\ run_result # "none" /\ has_volume) => run_result = "returned"
    /\ (run_result = "returned" /\ inflow_len = 0) =>
           (total_cso_volume = 0 /\ storage_tracked = <<>>)

\* C9 witness: a run with an empty inflow, time_step <= 0 and
\* wwtp_capacity <= 0 has returned
C9_Witness ==
    /\ run_result = "returned"
    /\ inflow_len = 0
    /\ time_step <= 0
    /\ wwtp_capacity <= 0

\* C10: when create_CAS_model fails on a storage spec that cannot be
\* resolved, total_system_volume is what it was before the call: no sum
\* over the specs before the failing one is left behind (stated for a call
\* on an object that had a capacity, failing after its first spec).
C10_FailedCreateLeavesVolume ==
    (create_result = "raised" /\ Len(storage) >= 2 /\ volume_at_call[1]) =>
        <<has_volume, total_system_volume>> = volume_at_call

----------------------------------------------------------------------------
(* Claims about run_model, under SpecRTC                                   *)

\* the condition of a rule holds on the depths: 'higher' is depth of the
\* observed node > threshold, 'lower' is depth <= threshold (the direction
\* is read without regard to case)
RuleHolds(rule, depths) ==
    /\ rule[1] \in DOMAIN depths
    /\ \/ Lower(rule[4]) = "higher" /\ depths[rule[1]] > rule[2]
       \/ Lower(rule[4]) = "lower" /\ depths[rule[1]] <= rule[2]

\* the places in a rule list of the rules whose condition holds
HoldingRules(rules, depths) ==
    {j \in 1..Len(rules) : RuleHolds(rules[j], depths)}

Last(S) == CHOOSE j \in S : \A other \in S : other <= j

\* the pumps whose evaluation in the current control step is complete
EvaluatedPumps == {list_of_pumps[i] : i \in 1..(pump_i - 1)}

\* C3: after the evaluation of a pump that has an entry and at least one
\* rule whose condition holds, its target setting is the setting of the
\* last such rule in list order.
C3_LastMatchingRuleWins ==
    \A p \in EvaluatedPumps :
        (p \in DOMAIN rule_dictionary
           /\ HoldingRules(rule_dictionary[p], depth) # {}) =>
            target_setting[p] =
                rule_dictionary[p][Last(HoldingRules(rule_dictionary[p], depth))][3]

\* C3 witness: an evaluated pump with two holding rules of different
\* settings
C3_Witness ==
    \E p \in EvaluatedPumps :
        /\ p \in DOMAIN rule_dictionary
        /\ \E i, j \in HoldingRules(rule_dictionary[p], depth) :
               /\ i < j
               /\ rule_dictionary[p][i][3] # rule_dictionary[p][j][3]

\* C4: during a run a pump's target setting changes only in the evaluation
\* of that pump in a control step where one of its rules holds; when none
\* holds the setting after the step is the setting before it.
C4_SettingChangesOnlyOnMatch ==
    [][\A p \in Pumps :
          (rtc_pc # "idle" /\ target_setting'[p] # target_setting[p]) =>
              /\ rtc_pc = "eval"
              /\ pump_i <= Len(list_of_pumps)
              /\ list_of_pumps[pump_i] = p
              /\ p \in DOMAIN rule_dictionary
              /\ HoldingRules(rule_dictionary[p], depth) # {}]_vars

\* C4 witness: in the second control step a pump has been evaluated, none
\* of its rules holds, and it keeps the setting 1 a rule gave it in the
\* first step (no pump starts at 1)
C4_Witness ==
    /\ steps = 2
    /\ \E p \in EvaluatedPumps :
           /\ p \in DOMAIN rule_dictionary
           /\ rule_dictionary[p] # <<>>
           /\ HoldingRules(rule_dictionary[p], depth) = {}
           /\ target_setting[p] = 1

\* the pumps of the engine without an entry in rule_dictionary
MissingPumps == {p \in Pumps : p \notin DOMAIN rule_dictionary}

\* every rule of the dictionary observes a node of the model
ObservesKnownNodes ==
    \A a \in DOMAIN rule_dictionary :
        \A j \in 1..Len(rule_dictionary[a]) : rule_dictionary[a][j][1] \in NodeIds

\* C5: whenever a pump enumerated by the engine has no entry in the rule
\* dictionary, run_model fails, with a missing-rule error that names that
\* pump; it does not end with a normal result (stated for dictionaries
\* whose rules observe nodes of the model).
C5_MissingRuleFails ==
    (/\ rtc_pc = "done"
     /\ DOMAIN rule_dictionary # {}
     /\ ObservesKnownNodes
     /\ MissingPumps # {}) =>
        /\ run_model_result = "raised"
        /\ error_pump \in MissingPumps


----------------------------------------------------------------------------
(* Claims about create_CAS_model                                           *)

\* the storage line the code picks for a specification
PickedLine(stor) == read_model[MatchingLines(read_model, stor[1])[1]]

\* the specification resolves through the tabular branch
IsTabular(stor) ==
    /\ MatchingLines(read_model, stor[1]) # <<>>
    /\ LineContains(PickedLine(stor), wTabular)

\* the (depth, area) samples of the curve of a tabular specification
CurveSamples(stor) ==
    LET all_curve == AllCurve(read_model, PickedLine(stor)[6].s)
    IN  [j \in 1..Len(all_curve) |->
            [depth |-> all_curve[j][Len(all_curve[j]) - 1].v,
             area  |-> all_curve[j][Len(all_curve[j])].v]]

\* the accumulated width of the first n intervals of a curve
RECURSIVE AccumulatedWidth(_, _)
AccumulatedWidth(samples, n) ==
    IF n = 0 THEN 0
    ELSE AccumulatedWidth(samples, n - 1) + (samples[n + 1].depth - samples[n].depth)

\* the sum of the full trapezoids of the first n intervals of a curve
RECURSIVE TrapezoidSum(_, _)
TrapezoidSum(samples, n) ==
    IF n = 0 THEN 0
    ELSE TrapezoidSum(samples, n - 1)
         + ((samples[n].area + samples[n + 1].area) \div 2)
           * (samples[n + 1].depth - samples[n].depth)

\* the counts of intervals whose accumulated widths reach the threshold
ReachingCounts(samples, threshold) ==
    {n \in 0..(Len(samples) - 1) : AccumulatedWidth(samples, n) >= threshold}

\* the smallest of them
SmallestCount(samples, threshold) ==
    CHOOSE n \in ReachingCounts(samples, threshold) :
        \A m \in ReachingCounts(samples, threshold) : n <= m

\* C11: the volume of a tabular specification is the sum of the full
\* trapezoids over the first k intervals of its curve, k the smallest count
\* of intervals whose accumulated widths reach the threshold: the last
\* interval is charged at its full width; a curve of two samples of equal
\* area A, D apart, with threshold D gives exactly A * D
C11_FullTrapezoids ==
    \A i \in 1..Len(volumes) :
        IsTabular(storage[i]) =>
            LET samples == CurveSamples(storage[i])
                threshold == storage[i][2]
            IN  /\ ReachingCounts(samples, threshold) # {}
                /\ volumes[i] = TrapezoidSum(samples, SmallestCount(samples, threshold))
                /\ (/\ Len(samples) = 2
                    /\ samples[1].area = samples[2].area
                    /\ threshold = samples[2].depth - samples[1].depth)
                   => volumes[i] = samples[1].area * threshold

\* a threshold strictly inside the first interval is charged the whole
\* interval, and a constant-area curve was integrated over its range
C11_Witness ==
    /\ Len(volumes) = 2
    /\ storage[1] = <<nS1, 1>> /\ volumes[1] = 6
    /\ storage[2] = <<nS2, 1>> /\ volumes[2] = 2

\* the sum of the volumes of the passes whose specification has a threshold
\* other than 0
RECURSIVE SumAboveZero(_, _)
SumAboveZero(vols, n) ==
    IF n = 0 THEN 0
    ELSE SumAboveZero(vols, n - 1) + (IF storage[n][2] = 0 THEN 0 ELSE vols[n])

\* what the while loop gives for threshold 0 on the curves of the model
\* file and on a curve of no lines
ZeroThresholdVolumes ==
    {IntegrateCurve(AllCurve(read_model, relevant_curve), 0, 0, 0, 0) :
        relevant_curve \in {nC1, nC2, nZZ}}

\* the loop of create_CAS_model was entered in the last call
InLoop ==
    \/ create_result \in {"running", "returned"}
    \/ create_result = "raised" /\ Len(storage) >= 1

\* C12: integrating a curve with threshold 0 yields volume 0 and does not
\* fail, whatever the samples are, so a specification with threshold 0
\* contributes nothing to total_system_volume
C12_ZeroThresholdZeroVolume ==
    /\ \A i \in 1..Len(volumes) :
          IsTabular(storage[i]) /\ storage[i][2] = 0 => volumes[i] = 0
    /\ ZeroThresholdVolumes = {Ok(0)}
    /\ InLoop => total_system_volume = SumAboveZero(volumes, Len(volumes))
    /\ (/\ create_result = "raised"
        /\ Len(storage) = Len(volumes) + 1
        /\ IsTabular(storage[Len(storage)]))
       => storage[Len(storage)][2] # 0

\* a call returned whose first specification had threshold 0 on a curve
C12_Witness ==
    /\ create_result = "returned"
    /\ Len(volumes) = 2
    /\ storage[1] = <<nS1, 0>> /\ volumes[1] = 0
    /\ storage[2] = <<nS2, 1>>
    /\ total_system_volume = 2

\* C13: a tabular specification whose threshold no count of intervals of its
\* curve reaches is never resolved to a volume: the call that meets it stops
\* there with an IndexError, Python's bounds error, and returns no capacity
C13_ShortCurveRaises ==
    \A i \in 1..Len(storage) :
        (/\ IsTabular(storage[i])
         /\ ReachingCounts(CurveSamples(storage[i]), storage[i][2]) = {})
        => /\ i = Len(volumes) + 1
           /\ create_result = "raised"
           /\ create_error = "IndexError"

\* the second specification asked for depth 2 of a curve that covers depth 1
C13_Witness ==
    /\ storage = <<(<<nS1, 1>>), (<<nS2, 2>>)>>
    /\ Len(volumes) = 1
    /\ create_result = "raised"
    /\ create_error = "IndexError"

\* C14: every specification whose name is contained in no line, or in more
\* than one line, from the [STORAGE] header onward is reported as an input
\* error: a specification that was resolved to a volume matched one line
C14_AmbiguousNameIsError ==
    \A i \in 1..Len(volumes) :
        Len(MatchingLines(read_model, storage[i][1])) = 1

----------------------------------------------------------------------------
(* Claims about repeated runs                                              *)

\* C17: run_CAS_model called twice with the same arguments returns the same
\* total_cso_volume and storage_tracked; every run starts from
\* available_storage = total_system_volume and an overflow of 0, and
\* total_system_volume is during and after a run what it was at the call
C17_RepeatedRunSameResult ==
    /\ (/\ previous.some
        /\ run_result = "returned"
        /\ wwtp_capacity = previous.wwtp_capacity
        /\ time_step = previous.time_step
        /\ inflow = previous.inflow)
       => /\ total_cso_volume = previous.total_cso_volume
          /\ storage_tracked = previous.storage_tracked
    /\ (run_result = "running" /\ k = 0)
       => /\ available_storage = total_system_volume
          /\ total_cso_volume = 0
          /\ storage_tracked = <<>>
    /\ run_result \in {"running", "returned"} => total_system_volume = volume_at_run

\* a run that overflowed and ended with the storage partly used was
\* repeated, and the repetition returned
C17_Witness ==
    /\ previous.some
    /\ run_result = "returned"
    /\ Len(previous.inflow) = MaxSamples
    /\ inflow = previous.inflow
    /\ previous.total_cso_volume > 0
    /\ available_storage < total_system_volume
    /\ available_storage > 0

----------------------------------------------------------------------------
(* Claims about the control loop of run_model                              *)

\* the engine integrates an interval
Advances == steps' # steps

\* a pump is passed by the loop over the pumps
Evaluates == rtc_pc = "eval" /\ pump_i' = pump_i + 1

\* the results of an interval are appended
Records == rtc_pc = "eval" /\ times' # times

\* C15: in every control interval n the engine first finishes advancing to
\* n, then each pump is passed once and its rules are evaluated on the depths
\* of n and the setting written, then the outfall inflows of n and the time of
\* n are recorded, and only after that the engine advances again
C15_OrderOfEvents ==
    [][/\ Advances =>
            /\ rtc_pc = "advance" /\ Len(times) = steps
            /\ steps' = steps + 1
            /\ rtc_pc' = "eval" /\ pump_i' = 1
            /\ target_setting' = target_setting /\ times' = times
       /\ depth' # depth => Advances
       /\ (rtc_pc # "idle" /\ target_setting' # target_setting) =>
            /\ rtc_pc = "eval" /\ pump_i <= Len(list_of_pumps)
            /\ Len(times) = steps - 1
            /\ ~Advances /\ times' = times
            /\ LET pump == list_of_pumps[pump_i]
               IN  /\ pump \in DOMAIN rule_dictionary
                   /\ \A p \in DOMAIN target_setting \ {pump} :
                         target_setting'[p] = target_setting[p]
                   /\ target_setting'[pump] =
                         ApplyRules(rule_dictionary[pump], 1, depth,
                                    target_setting[pump]).value
       /\ pump_i' # pump_i => (Advances /\ pump_i' = 1) \/ Evaluates
       /\ Records =>
            /\ pump_i = Len(list_of_pumps) + 1
            /\ Len(times) = steps - 1
            /\ times' = Append(times, 900 * steps)
            /\ \A i \in 1..Len(list_of_outfalls) :
                  outfall_results'[i] =
                      Append(outfall_results[i], total_inflow[list_of_outfalls[i]])
            /\ ~Advances /\ target_setting' = target_setting
            /\ rtc_pc' = "advance"
      ]_vars

\* in the second interval both pumps have been passed, a setting was
\* changed by the rules, and the results of the interval are not yet recorded
C15_Witness ==
    /\ run_model_result = "running"
    /\ steps = 2
    /\ rtc_pc = "eval"
    /\ pump_i = Len(list_of_pumps) + 1
    /\ Len(times) = 1
    /\ target_setting["p10_1"] # target_setting["p_2_1"]

\* the control steps of the current run whose body ran to its end
CompletedSteps ==
    IF rtc_pc = "eval" \/ run_model_result = "returned_error" THEN steps - 1 ELSE steps

\* C16: after every completed control step the inflow sequence of each
\* outfall and the sequence of times have the same length, the number of
\* completed steps; a step appends one value to each of them and none of
\* them ever loses an entry
C16_SeriesAligned ==
    /\ [](rtc_pc # "idle" =>
            /\ Len(times) = CompletedSteps
            /\ \A i \in 1..Len(list_of_outfalls) :
                  Len(outfall_results[i]) = CompletedSteps)
    /\ [][rtc_pc # "idle" =>
            \/ /\ times' = times
               /\ outfall_results' = outfall_results
            \/ /\ Records
               /\ \E t \in 0..(900 * MaxSteps) : times' = Append(times, t)
               /\ \A i \in 1..Len(list_of_outfalls) :
                     \E q \in 0..3 : outfall_results'[i] = Append(outfall_results[i], q)
       ]_vars

\* two steps were completed, one with no inflow to the first outfall
C16_Witness ==
    /\ run_model_result = "returned_frame"
    /\ steps = 2
    /\ Len(times) = 2
    /\ outfall_results[1] = <<0, 1>>
    /\ Len(outfall_results[2]) = 2

----------------------------------------------------------------------------
(* Claims about the failures of run_model                                  *)

\* C18: when run_model fails in a control step because a pump has no entry
\* in the rule dictionary, no target setting of the engine differs from what
\* it was before the step: the pumps evaluated earlier in the step have the
\* settings they had
C18_FailureLeavesSettings ==
    (run_model_result = "returned_error" /\ error_pump \in MissingPumps)
        => target_setting = settings_at_step

\* C19: when a control step is complete, the rule list of every key of the
\* rule dictionary has been evaluated in it, also of a key the engine does
\* not enumerate as a pump
C19_EveryEntryEvaluated ==
    (run_model_result = "running" /\ rtc_pc = "advance" /\ steps >= 1)
        => DOMAIN rule_dictionary \subseteq EvaluatedPumps

\* C20: the error naming a pump as not specified in the rules is returned
\* only for a pump without an entry in the rule dictionary; a rule that
\* observes a node the model does not have gives no such error
C20_MissingRuleErrorOnlyWhenMissing ==
    run_model_result = "returned_error" => error_pump \in MissingPumps

----------------------------------------------------------------------------
(* Claims about the overflow branch as written                             *)

\* C21: the overflow branch computes the shortfall after available_storage
\* has been set to 0: every sample that takes the branch adds
\* inflow*time_step - wwtp_capacity*time_step to total_cso_volume, whatever
\* available_storage was before the sample, and the entry of storage_tracked
\* recorded for the sample is 0
C21_ShortfallAfterZeroing ==
    LastOverflowed =>
        /\ total_cso_volume - pre_sample.total_cso_volume =
               inflow[k] * time_step - wwtp_capacity * time_step
        /\ available_storage = 0
        /\ Len(storage_tracked) = k
        /\ storage_tracked[k] = 0

\* a sample of a valid run overflowed while storage was still available
C21_Witness ==
    /\ ValidRun
    /\ LastOverflowed
    /\ pre_sample.available_storage > 0
    /\ total_cso_volume > pre_sample.total_cso_volume

====
